---------------------------- MODULE Spec2Model ----------------------------
(***************************************************************************)
(* A model of yapb ("Yet Another Progress Bar"): the spinners, the braille *)
(* counter, the snake, the bar (src/src/lib.rs) and the numeric prefix     *)
(* helpers (src/src/prefix.rs).                                            *)
(*                                                                         *)
(* Integers keep the width the source gives them.  A u8 is a number in     *)
(* 0..255.  A u32 does not fit the model checker's integers, so it is the   *)
(* pair <<hi, lo>> of its two 16-bit halves (value hi * 2^16 + lo).        *)
(* Characters are their Unicode code points.                               *)
(***************************************************************************)
EXTENDS Integers, Sequences, FiniteSets, TLC

VARIABLES
    kind,       \* which spinner type the modelled object is
    state,      \* its `state: u8` field
    out,        \* the string its Display impl last wrote (<<>>: none yet)
    prev,       \* history: `state` before the latest set/step call
    lastOp,     \* history: "new", "set" or "step", the latest constructor/mutator
    lastArg,    \* history: the u32 argument of that call
    total,      \* history: last set value (or 0) plus all later step counts, exact
    nops,       \* history: number of set/step calls so far
    snake,      \* Snake: its `state: u32` field
    snakeOut,   \* Snake: the string its Display impl last wrote
    snakeOp,    \* history: the latest Snake constructor/mutator
    snakeArg,   \* history: the u32 argument of that call
    snakeOps,   \* history: number of Snake set/step calls so far
    progress,   \* Bar: its `progress: f32` field
    barOut,     \* Bar: the latest Display call, its arguments and what it wrote
    arg,        \* prefix helpers: the call made, its function and arguments
    ret         \* prefix helpers: what the call returned or wrote (Pending: not yet)

spinnerVars == <<kind, state, out, prev, lastOp, lastArg, total, nops>>
snakeVars == <<snake, snakeOut, snakeOp, snakeArg, snakeOps>>
barVars == <<progress, barOut>>
prefixVars == <<arg, ret>>
vars == <<spinnerVars, snakeVars, barVars, prefixVars>>

---------------------------------------------------------------------------
(* Bounds of the model.                                                    *)

\* set/step calls made on one spinner object
MaxOps == 3
\* the small arguments 0..MaxSmall are all tried, next to the edge values
MaxSmall == 4
\* set/step calls made on one Snake
MaxSnakeOps == 3
\* the snake is set to every state in 0..MaxPhase
MaxPhase == 80
\* the bar is rendered at every width in 0..MaxWidth
MaxWidth == 12
\* binary() is given values n * 2^e with e in 0..MaxBinaryExp
MaxBinaryExp == 95
\* si() is given values n * 10^e with e in -MaxDecimalExp..MaxDecimalExp
MaxDecimalExp == 30
\* fmt_sigfigs is asked for 0..MaxFigures significant figures
MaxFigures == 4

---------------------------------------------------------------------------
(* Fixed-width integers.                                                   *)

Limb == 2^16

\* a u32 from its numeric value, for values that fit TLC's integers
U32(n) == <<n \div Limb, n % Limb>>

U32Max == <<Limb - 1, Limb - 1>>

\* `x as u8` for x: u32 (truncation to the low 8 bits)
AsU8(x) == x[2] % 256

\* u8::wrapping_add
WrappingAddU8(a, b) == (a + b) % 256

\* u32::wrapping_add
WrappingAddU32(a, b) ==
    LET lo == a[2] + b[2]
        hi == a[1] + b[1] + lo \div Limb
    IN  <<hi % Limb, lo % Limb>>

\* x % d and x / d for x: u32 and a small divisor d
RemU32(x, d) == ((x[1] % d) * Limb + x[2]) % d
DivU32(x, d) == <<x[1] \div d, ((x[1] % d) * Limb + x[2]) \div d>>

\* u32::saturating_sub on values below 2^16
SaturatingSub(a, b) == IF a > b THEN a - b ELSE 0

RECURSIVE BitAnd(_, _)
BitAnd(a, b) ==
    IF a = 0 \/ b = 0 THEN 0
    ELSE (a % 2) * (b % 2) + 2 * BitAnd(a \div 2, b \div 2)

RECURSIVE BitOr(_, _)
BitOr(a, b) ==
    IF a = 0 THEN b
    ELSE IF b = 0 THEN a
    ELSE (IF a % 2 = 1 \/ b % 2 = 1 THEN 1 ELSE 0) + 2 * BitOr(a \div 2, b \div 2)

\* `!x`, `x << n`, `x >> n` and u8::rotate_right on a u8 (n < 8 for the shifts)
NotU8(x) == 255 - x
ShlU8(x, n) == (x * 2^n) % 256
ShrU8(x, n) == x \div 2^n
RotateRightU8(x, n) ==
    LET r == n % 8 IN (x \div 2^r) + (x % 2^r) * 2^(8 - r)

---------------------------------------------------------------------------
(* Glyph tables and the braille bit rearrangement.                         *)

SPINNER8_STATES ==
    <<10304, 10244, 10242, 10241, 10248, 10256, 10272, 10368>>

COUNTER16_STATES ==
    <<32, 9624, 9622, 9612, 9629, 9600, 9630, 9627,
      9623, 9626, 9604, 9625, 9616, 9628, 9631, 9608>>

SPINNER4_STATES == <<9622, 9624, 9629, 9623>>

\* What `get_unchecked(i)` can yield for i outside the table: the read is
\* undefined behaviour, so the build may hand back any value or fault.
\* -1 stands for an arbitrary value, -2 for a fault.
OutOfRangeRead == {-1, -2}

get_unchecked(table, i) ==
    IF i < Len(table) THEN {table[i + 1]} ELSE OutOfRangeRead

\* braille_binary with the first mask one bit too wide: bit 3 also stays put
braille_binary_unmasked(value) ==
    LET v == BitOr(BitOr(BitAnd(value, 143),
                         ShlU8(BitAnd(value, 8), 3)),
                   ShrU8(BitAnd(value, 112), 1))
    IN  10240 + v

braille_binary(value) ==
    LET v == BitOr(BitOr(BitAnd(value, 135),
                         ShlU8(BitAnd(value, 8), 3)),
                   ShrU8(BitAnd(value, 112), 1))
    IN  10240 + v

---------------------------------------------------------------------------
(* The spinners: set, step and fmt of each type.                           *)

Counter256_set(value) == AsU8(value)
Counter256_step(s, count) == WrappingAddU8(s, AsU8(count))
Counter256_fmt(s) == {braille_binary(s)}

Spinner8_set(value) == AsU8(value) % Len(SPINNER8_STATES)
\* Spinner8's step with a saturating instead of a wrapping addition
Spinner8_step_saturating(s, count) ==
    (IF s + AsU8(count) > 255 THEN 255 ELSE s + AsU8(count)) % Len(SPINNER8_STATES)
Spinner8_step(s, count) == WrappingAddU8(s, AsU8(count)) % Len(SPINNER8_STATES)
Spinner8_fmt(s) == get_unchecked(SPINNER8_STATES, s)

Counter16_set(value) == AsU8(value) % Len(COUNTER16_STATES)
Counter16_step(s, count) == WrappingAddU8(s, AsU8(count)) % Len(COUNTER16_STATES)
Counter16_fmt(s) == get_unchecked(COUNTER16_STATES, s)

Spinner4_set(value) == AsU8(value) % Len(SPINNER4_STATES)
\* Spinner4's step without the reduction modulo the table length
Spinner4_step_unreduced(s, count) == WrappingAddU8(s, AsU8(count))
Spinner4_step(s, count) == WrappingAddU8(s, AsU8(count)) % Len(SPINNER4_STATES)
Spinner4_fmt(s) == get_unchecked(SPINNER4_STATES, s)

FixedKinds == {"Spinner4", "Spinner8", "Counter16"}
Kinds == FixedKinds \cup {"Counter256"}

\* dispatch of the Spinner and Display traits on the object's type
SetOf(k, value) ==
    CASE k = "Spinner4" -> Spinner4_set(value)
      [] k = "Spinner8" -> Spinner8_set(value)
      [] k = "Counter16" -> Counter16_set(value)
      [] k = "Counter256" -> Counter256_set(value)

StepOf(k, s, count) ==
    CASE k = "Spinner4" -> Spinner4_step(s, count)
      [] k = "Spinner8" -> Spinner8_step(s, count)
      [] k = "Counter16" -> Counter16_step(s, count)
      [] k = "Counter256" -> Counter256_step(s, count)

FmtOf(k, s) ==
    CASE k = "Spinner4" -> Spinner4_fmt(s)
      [] k = "Spinner8" -> Spinner8_fmt(s)
      [] k = "Counter16" -> Counter16_fmt(s)
      [] k = "Counter256" -> Counter256_fmt(s)

\* the arguments tried for set and step: every small value, and the edges
\* of the u8, u16 and u32 ranges
U32Samples ==
    {U32(n) : n \in 0..MaxSmall}
    \cup {U32(8), U32(15), U32(16), U32(240), U32(255), U32(256), U32(257), U32(Limb - 1),
          <<1, 0>>, <<Limb \div 2, 0>>, <<Limb - 1, Limb - 2>>, U32Max}

\* exact (unbounded) sum of a running total <<hi, lo>> and a u32
ExactAdd(t, x) ==
    LET lo == t[2] + x[2] IN <<t[1] + x[1] + lo \div Limb, lo % Limb>>

SpinnerNew ==
    /\ kind \in Kinds
    /\ state = 0
    /\ out = <<>>
    /\ prev = 0
    /\ lastOp = "new"
    /\ lastArg = U32(0)
    /\ total = U32(0)
    /\ nops = 0

SpinnerSet(value) ==
    /\ nops < MaxOps
    /\ state' = SetOf(kind, value)
    /\ prev' = state
    /\ lastOp' = "set"
    /\ lastArg' = value
    /\ total' = value
    /\ nops' = nops + 1
    /\ UNCHANGED <<kind, out>>

SpinnerStep(count) ==
    /\ nops < MaxOps
    /\ state' = StepOf(kind, state, count)
    /\ prev' = state
    /\ lastOp' = "step"
    /\ lastArg' = count
    /\ total' = ExactAdd(total, count)
    /\ nops' = nops + 1
    /\ UNCHANGED <<kind, out>>

SpinnerFmt ==
    /\ \E c \in FmtOf(kind, state) : out' = <<c>>
    /\ UNCHANGED <<kind, state, prev, lastOp, lastArg, total, nops>>

---------------------------------------------------------------------------
(* The snake.                                                              *)

WOBBLE == 5

Abs(i) == IF i < 0 THEN -i ELSE i

\* k * x on u32 for a small k; the result of the one use in Snake_fmt is at
\* most 5 * ((2^32 - 1) / 10) < 2^31, so the product never overflows a u32
MulU32(k, x) ==
    LET lo == k * x[2]
        hi == k * x[1] + lo \div Limb
    IN  <<hi % Limb, lo % Limb>>

Snake_set(value) == value
Snake_step(s, count) == WrappingAddU32(s, count)

\* `length`: the number of lit dots
Snake_length(s) == Abs(RemU32(s, 2 * WOBBLE) - WOBBLE) + 1

\* Snake's run made one bit too short
Snake_bits_short(length) == NotU8(ShlU8(255, length - 1))

\* `bits`: the run of `length` low bits
Snake_bits(length) == NotU8(ShlU8(255, length))

\* Snake's position without the offset of the shrinking half of the period
Snake_position_no_offset(s) == AsU8(MulU32(WOBBLE, DivU32(s, 2 * WOBBLE)))

\* `position`: how far the run is rotated, as a u8
Snake_position(s) ==
    AsU8(WrappingAddU32(MulU32(WOBBLE, DivU32(s, 2 * WOBBLE)),
                        U32(SaturatingSub(RemU32(s, 2 * WOBBLE), WOBBLE))))

\* `value`: the rotated run with its most significant nibble reversed
Snake_value(s) ==
    LET sn == RotateRightU8(Snake_bits(Snake_length(s)), Snake_position(s))
    IN  BitOr(BitOr(BitOr(BitOr(BitAnd(sn, 15),
                                ShrU8(BitAnd(sn, 128), 3)),
                          ShrU8(BitAnd(sn, 64), 1)),
                    ShlU8(BitAnd(sn, 32), 1)),
              ShlU8(BitAnd(sn, 16), 3))

Snake_fmt(s) == braille_binary(Snake_value(s))

\* the arguments tried on the snake: every state of MaxPhase consecutive
\* frames, and the places where a 16-bit half or the whole counter carries
SnakeSamples ==
    {U32(n) : n \in 0..MaxPhase}
    \cup {U32(Limb - 1), <<1, 0>>, <<Limb \div 2 - 1, Limb - 1>>,
          <<Limb \div 2, 0>>, <<Limb - 1, Limb - 2>>, U32Max}

SnakeCounts == {U32(0), U32(1), U32(2 * WOBBLE), U32(Limb - 1), U32Max}

SnakeIdle ==
    /\ snake = U32(0)
    /\ snakeOut = <<>>
    /\ snakeOp = "new"
    /\ snakeArg = U32(0)
    /\ snakeOps = 0

SnakeNew == SnakeIdle

SnakeSet ==
    \E value \in SnakeSamples :
        /\ snakeOps < MaxSnakeOps
        /\ snake' = Snake_set(value)
        /\ snakeOp' = "set"
        /\ snakeArg' = value
        /\ snakeOps' = snakeOps + 1
        /\ UNCHANGED <<snakeOut, spinnerVars, barVars, prefixVars>>

SnakeStep ==
    \E count \in SnakeCounts :
        /\ snakeOps < MaxSnakeOps
        /\ snake' = Snake_step(snake, count)
        /\ snakeOp' = "step"
        /\ snakeArg' = count
        /\ snakeOps' = snakeOps + 1
        /\ UNCHANGED <<snakeOut, spinnerVars, barVars, prefixVars>>

SnakeFmt ==
    /\ snakeOut' = <<Snake_fmt(snake)>>
    /\ UNCHANGED <<snake, snakeOp, snakeArg, snakeOps, spinnerVars, barVars, prefixVars>>

---------------------------------------------------------------------------
(* Single-precision floats, as far as the bar uses them.                   *)
(* A float is a record: cls is "nan", "inf" or "fin"; neg is its sign; a   *)
(* finite one has the value m * 2^e with m < 2^24, kept with m odd (or     *)
(* m = 0, e = 0) so that equal values are equal records.  The exponent     *)
(* range of f32 is not modelled: no product the bar computes leaves it.    *)

RECURSIVE BitLen(_)
BitLen(n) == IF n = 0 THEN 0 ELSE 1 + BitLen(n \div 2)

RECURSIVE Canon(_, _)
Canon(m, e) ==
    IF m = 0 THEN <<0, 0>>
    ELSE IF m % 2 = 0 THEN Canon(m \div 2, e + 1)
    ELSE <<m, e>>

Fin(neg, m, e) ==
    LET c == Canon(m, e) IN [cls |-> "fin", neg |-> neg, m |-> c[1], e |-> c[2]]

NaN == [cls |-> "nan", neg |-> FALSE, m |-> 0, e |-> 0]
Inf(neg) == [cls |-> "inf", neg |-> neg, m |-> 0, e |-> 0]

\* q + 1 or q: round to nearest, ties to even, given the dropped part r of
\* `half + half` possible values
RoundHalfEven(q, r, half) ==
    IF r > half \/ (r = half /\ q % 2 = 1) THEN q + 1 ELSE q

\* the float nearest to n * 2^e for a natural n below 2^31
RoundF32(n, e) ==
    LET k == BitLen(n) - 24
    IN  IF k <= 0 THEN Fin(FALSE, n, e)
        ELSE Fin(FALSE, RoundHalfEven(n \div 2^k, n % 2^k, 2^(k - 1)), e + k)

\* `w as f32` for w: u32
U32AsF32(w) == RoundF32(w, 0)

\* the exact product of two naturals below 2^24, as <<high, low>> with
\* value high * 2^24 + low
Mul24(a, b) ==
    LET a1 == a \div 4096
        a0 == a % 4096
        b1 == b \div 4096
        b0 == b % 4096
        t0 == a0 * b0
        t1 == a1 * b0 + a0 * b1 + t0 \div 4096
        t2 == a1 * b1 + t1 \div 4096
    IN  <<t2, (t1 % 4096) * 4096 + (t0 % 4096)>>

\* a * b for finite floats a, b >= 0: the exact product rounded once
F32Mul(a, b) ==
    LET p == Mul24(a.m, b.m)
        h == BitLen(p[1])
        e == a.e + b.e
    IN  IF h = 0 THEN Fin(FALSE, p[2], e)
        ELSE Fin(FALSE,
                 RoundHalfEven(p[1] * 2^(24 - h) + p[2] \div 2^h,
                               p[2] % 2^h, 2^(h - 1)),
                 e + h)

\* f32::max(self, 0.0) and f32::min(self, 1.0): a NaN self yields the other
\* operand
F32Max0(x) ==
    CASE x.cls = "nan" -> Fin(FALSE, 0, 0)
      [] x.cls = "inf" -> IF x.neg THEN Fin(FALSE, 0, 0) ELSE x
      [] OTHER -> IF x.neg THEN Fin(FALSE, 0, 0) ELSE x

F32Min1(x) ==
    CASE x.cls = "nan" -> Fin(FALSE, 1, 0)
      [] x.cls = "inf" -> IF x.neg THEN x ELSE Fin(FALSE, 1, 0)
      [] OTHER ->
            IF x.neg THEN x
            ELSE IF x.e >= 0 /\ x.m >= 1 THEN Fin(FALSE, 1, 0)
            ELSE IF x.e < 0 /\ -x.e < BitLen(x.m) THEN Fin(FALSE, 1, 0)
            ELSE x

\* x.trunc() for a finite x >= 0, as a natural (below 2^31 in every use)
F32Trunc(x) ==
    IF x.e >= 0 THEN x.m * 2^x.e
    ELSE IF -x.e > 30 THEN 0
    ELSE x.m \div 2^(-x.e)

\* x.fract() for a finite x >= 0
F32Fract(x) ==
    IF x.e >= 0 THEN Fin(FALSE, 0, 0)
    ELSE IF -x.e > 30 THEN x
    ELSE Fin(FALSE, x.m % 2^(-x.e), x.e)

\* x * 8.0 (exact: a change of exponent)
F32Times8(x) == Fin(FALSE, x.m, x.e + 3)

---------------------------------------------------------------------------
(* The bar.                                                                *)

FullBlock == <<9608>>

\* the arms 1..7 of the match in Bar's fmt
EighthBlocks == <<9615, 9614, 9613, 9612, 9611, 9610, 9609>>

Bar_new == Fin(FALSE, 0, 0)
Bar_set(value) == value

\* `f.width().unwrap_or(80) as u32`; a width is <<>> (none) or <<w>>, and
\* every w the model draws is below 2^31, which the cast leaves as it is
Bar_width(width) == IF width = <<>> THEN 80 ELSE width[1]

\* `count`
Bar_count(p, w) == F32Mul(U32AsF32(w), F32Min1(F32Max0(p)))

\* `whole`
Bar_whole(p, w) == F32Trunc(Bar_count(p, w))

\* `fraction`
Bar_fraction(p, w) == F32Trunc(F32Times8(F32Fract(Bar_count(p, w))))

\* Display for Bar: what is written, as runs <<character, how many>>, and
\* whether the call returned ("ok") or reached unreachable!() ("panic").
\* The sink is a String: no write fails.
Bar_fmt(p, width, fill) ==
    LET w == Bar_width(width)
        whole == Bar_whole(p, w)
        fraction == Bar_fraction(p, w)
        blocks == <<<<FullBlock[1], whole>>>>
    IN  IF whole < w
        THEN IF fraction > 7
             THEN [status |-> "panic", runs |-> blocks]
             ELSE [status |-> "ok",
                   runs |-> blocks \o
                       << <<IF fraction = 0 THEN fill ELSE EighthBlocks[fraction], 1>>,
                          <<fill, IF w - 1 > whole THEN w - 1 - whole ELSE 0>> >>]
        ELSE [status |-> "ok", runs |-> blocks]

\* the progress values set: the boundaries, values whose product with the
\* width is exact, values whose product is rounded (0.55f32, 0.7f32,
\* 1 - 2^-24), the smallest positive float, and values outside [0, 1]
ProgressSamples ==
    {Fin(FALSE, 0, 0), Fin(FALSE, 1, 0), Fin(FALSE, 1, -1), Fin(FALSE, 1, -3),
     Fin(FALSE, 1, -4), Fin(FALSE, 7, -3), Fin(FALSE, 9227469, -24),
     Fin(FALSE, 11744051, -24), Fin(FALSE, 16777215, -24), Fin(FALSE, 1, -149),
     Fin(TRUE, 1, -1), Fin(FALSE, 3, -1), Fin(FALSE, 5, 0),
     NaN, Inf(FALSE), Inf(TRUE)}

\* the widths asked for: none, every small one, and widths that are not
\* floats (2^24 + 1, 2^24 + 3)
WidthSamples ==
    {<<>>} \cup {<<w>> : w \in 0..MaxWidth} \cup {<<80>>, <<2^24 + 1>>, <<2^24 + 3>>}

FillSamples == {32, 46}

BarNew ==
    /\ progress = Bar_new
    /\ barOut = [call |-> <<>>, status |-> "none", runs |-> <<>>]

BarSet ==
    \E value \in ProgressSamples :
        /\ progress' = Bar_set(value)
        /\ UNCHANGED <<barOut, spinnerVars, snakeVars, prefixVars>>

BarFmt ==
    \E width \in WidthSamples, fill \in FillSamples :
        /\ barOut' = [call |-> <<progress, width, fill>>] @@ Bar_fmt(progress, width, fill)
        /\ UNCHANGED <<progress, spinnerVars, snakeVars, prefixVars>>

---------------------------------------------------------------------------
(* Double-precision values, as far as the prefix helpers use them.         *)
(* A value is [neg, n, e]: it is n * 2^e where binary() takes it and       *)
(* n * 10^e where si(), fmt_sigfigs and Scientific take it, with n kept    *)
(* free of factors of the base (n = 0 with e = 0).  Scaling by a power of  *)
(* 1024 is exact in f64.  The decimal arithmetic is exact here, while f64   *)
(* rounds the powers of ten and the quotients in the last place; none of   *)
(* the values drawn lies that close to a comparison of the code.           *)

RECURSIVE CanonB(_, _, _)
CanonB(b, n, e) ==
    IF n = 0 THEN <<0, 0>>
    ELSE IF n % b = 0 THEN CanonB(b, n \div b, e + 1)
    ELSE <<n, e>>

Val(b, neg, n, e) ==
    LET c == CanonB(b, n, e) IN [neg |-> neg, n |-> c[1], e |-> c[2]]

RECURSIVE DigitLen(_, _)
DigitLen(b, n) == IF n = 0 THEN 0 ELSE 1 + DigitLen(b, n \div b)

\* x.abs() < b^d, x.abs() = b^d and x.abs() > b^d
AbsBelow(b, x, d) == x.n = 0 \/ DigitLen(b, x.n) + x.e <= d
AbsEquals(b, x, d) == x.n = 1 /\ x.e = d
AbsAbove(b, x, d) == ~AbsBelow(b, x, d) /\ ~AbsEquals(b, x, d)

\* x < b^d and b^d > x (signed)
Below(b, x, d) == (x.neg /\ x.n # 0) \/ AbsBelow(b, x, d)

\* x / b^d
Scaled(b, x, d) == Val(b, x.neg, x.n, x.e - d)

BINARY_TABLE == <<"Ki", "Mi", "Gi", "Ti", "Pi", "Ei", "Zi", "Yi">>
SI_SMALL == <<"m", "u", "n", "p", "f", "a", "z", "y">>
SI_LARGE == <<"k", "M", "G", "T", "P", "E", "Z", "Y">>

\* the loop of binary() from its i-th prefix on; the divisor is 2^d
RECURSIVE binary_loop(_, _, _)
binary_loop(x, i, d) ==
    IF i = Len(BINARY_TABLE)
    THEN [mantissa |-> Scaled(2, x, d), prefix |-> <<BINARY_TABLE[i]>>]
    ELSE IF Below(2, x, d + 10)
         THEN [mantissa |-> Scaled(2, x, d), prefix |-> <<BINARY_TABLE[i]>>]
         ELSE binary_loop(x, i + 1, d + 10)

binary(x) ==
    IF Below(2, x, 10) THEN [mantissa |-> x, prefix |-> <<>>]
    ELSE binary_loop(x, 1, 10)

\* the loop of si() over SMALL from its i-th prefix on; the divisor is 10^d
RECURSIVE si_small_loop(_, _, _)
si_small_loop(x, i, d) ==
    IF i = Len(SI_SMALL)
    THEN [mantissa |-> Scaled(10, x, d), prefix |-> <<SI_SMALL[i]>>]
    ELSE IF AbsAbove(10, x, d - 3)
         THEN [mantissa |-> Scaled(10, x, d), prefix |-> <<SI_SMALL[i]>>]
         ELSE si_small_loop(x, i + 1, d - 3)

\* the loop of si() over LARGE from its i-th prefix on; the divisor is 10^d
RECURSIVE si_large_loop(_, _, _)
si_large_loop(x, i, d) ==
    IF i = Len(SI_LARGE)
    THEN [mantissa |-> Scaled(10, x, d), prefix |-> <<SI_LARGE[i]>>]
    ELSE IF AbsBelow(10, x, d + 3)
         THEN [mantissa |-> Scaled(10, x, d), prefix |-> <<SI_LARGE[i]>>]
         ELSE si_large_loop(x, i + 1, d + 3)

si(x) ==
    IF AbsBelow(10, x, 0) THEN si_small_loop(x, 1, -3)
    ELSE IF AbsBelow(10, x, 3) THEN [mantissa |-> x, prefix |-> <<>>]
    ELSE si_large_loop(x, 1, 3)

---------------------------------------------------------------------------
(* fmt_sigfigs and Scientific.  Text is a string; "u" stands for the micro *)
(* sign U+00B5 of the SMALL table.                                         *)

Digit == <<"0", "1", "2", "3", "4", "5", "6", "7", "8", "9">>

RECURSIVE Digits(_)
Digits(n) ==
    IF n < 10 THEN Digit[n + 1] ELSE Digits(n \div 10) \o Digit[(n % 10) + 1]

\* the w low digits of n, with leading zeros
RECURSIVE PadDigits(_, _)
PadDigits(n, w) ==
    IF w = 0 THEN "" ELSE PadDigits(n \div 10, w - 1) \o Digit[(n % 10) + 1]

IntText(i) == IF i < 0 THEN "-" \o Digits(-i) ELSE Digits(i)

\* the digits d.ddd of r, which has p fractional digits
PointText(r, p) ==
    Digits(r \div 10^p) \o (IF p > 0 THEN "." \o PadDigits(r % 10^p, p) ELSE "")

\* `{:.p}` of v: v rounded to p fractional digits, in fixed notation
FixedText(v, p) ==
    LET k == -(v.e + p)
        r == IF k <= 0 THEN v.n * 10^(-k)
             ELSE IF k > 9 THEN 0
             ELSE RoundHalfEven(v.n \div 10^k, v.n % 10^k, 5 * 10^(k - 1))
    IN  (IF v.neg THEN "-" ELSE "") \o PointText(r, p)

\* `{:.pe}` of v # 0: one digit, p fractional digits, the exponent
ExpText(v, p) ==
    LET k == DigitLen(10, v.n)
        x == v.e + k - 1
        q == IF k > p + 1
             THEN RoundHalfEven(v.n \div 10^(k - p - 1), v.n % 10^(k - p - 1),
                                5 * 10^(k - p - 2))
             ELSE v.n * 10^(p + 1 - k)
        carried == q = 10^(p + 1)
    IN  (IF v.neg THEN "-" ELSE "")
        \o PointText(IF carried THEN 10^p ELSE q, p)
        \o "e" \o IntText(IF carried THEN x + 1 ELSE x)

\* a - b on usize.  Below zero the subtraction overflows: a build with
\* overflow checks panics there, a build without them wraps to a value
\* near 2^64.
UsizeSub(a, b) ==
    IF a >= b THEN {<<"ok", a - b>>} ELSE {<<"panic">>, <<"wrapped">>}

\* the write!() of fmt_sigfigs with the precision that UsizeSub gave.  A
\* wrapped precision asks for about 2^64 fractional digits; what is written
\* then is left open.
WriteFloat(notation, precision, v) ==
    IF precision[1] = "ok"
    THEN [status |-> "ok", notation |-> notation, precision |-> precision[2],
          text |-> IF notation = "exp" THEN ExpText(v, precision[2])
                   ELSE FixedText(v, precision[2])]
    ELSE [status |-> precision[1], notation |-> notation, precision |-> -1,
          text |-> ""]

\* `value.abs().log10() as isize`: the cast drops the fraction, towards zero
Log10AsIsize(v) ==
    LET floor == DigitLen(10, v.n) + v.e - 1
    IN  IF floor >= 0 \/ v.n = 1 THEN floor ELSE floor + 1

\* the set of outcomes of fmt_sigfigs(f, value, figures)
fmt_sigfigs(value, figures) ==
    IF value.n = 0
    THEN {WriteFloat("fixed", p, value) : p \in UsizeSub(figures, 1)}
    ELSE LET log == Log10AsIsize(value)
         IN  IF log < 0 \/ log >= figures
             THEN {WriteFloat("exp", p, value) : p \in UsizeSub(figures, 1)}
             ELSE {WriteFloat("fixed", p, value) : p \in UsizeSub(figures, log + 1)}

\* Display for Scientific: the outcomes of formatting Scientific(x)
Scientific_fmt(x) ==
    LET r == si(x)
    IN  {IF w.status = "ok"
         THEN [w EXCEPT !.text = w.text \o " "
                                 \o (IF r.prefix = <<>> THEN "" ELSE r.prefix[1])]
         ELSE w : w \in fmt_sigfigs(r.mantissa, 3)}

\* the values handed to binary(): n * 2^e around every power of 1024 up to
\* 1024^9 and beyond, zero, fractions and negative values
BinarySamples ==
    {Val(2, FALSE, n, e) : n \in {1, 3, 1023, 1025}, e \in 0..MaxBinaryExp}
    \cup {Val(2, FALSE, 0, 0), Val(2, FALSE, 1, -1), Val(2, TRUE, 1, 11),
          Val(2, TRUE, 3, -2)}

\* the values handed to si() and Scientific: n * 10^e over the whole range
\* of prefixes and beyond it, zero and negative values
DecimalSamples ==
    {Val(10, neg, n, e) : neg \in {FALSE, TRUE}, n \in {1, 5, 15, 999, 9999},
                          e \in -MaxDecimalExp..MaxDecimalExp}
    \cup {Val(10, FALSE, 0, 0)}

\* the values handed to fmt_sigfigs
SigFigsSamples ==
    {Val(10, neg, n, e) : neg \in {FALSE, TRUE},
                          n \in {1, 5, 15, 95, 999, 9995, 12345}, e \in -5..2}
    \cup {Val(10, FALSE, 0, 0)}

Calls ==
    {[fn |-> "binary", x |-> x, figures |-> 0] : x \in BinarySamples}
    \cup {[fn |-> "si", x |-> x, figures |-> 0] : x \in DecimalSamples}
    \cup {[fn |-> "Scientific", x |-> x, figures |-> 0] : x \in DecimalSamples}
    \cup {[fn |-> "fmt_sigfigs", x |-> x, figures |-> f] :
              x \in SigFigsSamples, f \in 0..MaxFigures}

Pending == [status |-> "pending"]

PrefixIdle ==
    /\ arg = [fn |-> "none", x |-> Val(10, FALSE, 0, 0), figures |-> 0]
    /\ ret = Pending

PrefixInit ==
    /\ arg \in Calls
    /\ ret = Pending

CallBinary ==
    /\ arg.fn = "binary"
    /\ ret = Pending
    /\ ret' = [status |-> "ok"] @@ binary(arg.x)
    /\ UNCHANGED <<arg, spinnerVars, snakeVars, barVars>>

CallSi ==
    /\ arg.fn = "si"
    /\ ret = Pending
    /\ ret' = [status |-> "ok"] @@ si(arg.x)
    /\ UNCHANGED <<arg, spinnerVars, snakeVars, barVars>>

CallFmtSigfigs ==
    /\ arg.fn = "fmt_sigfigs"
    /\ ret = Pending
    /\ ret' \in fmt_sigfigs(arg.x, arg.figures)
    /\ UNCHANGED <<arg, spinnerVars, snakeVars, barVars>>

CallScientific ==
    /\ arg.fn = "Scientific"
    /\ ret = Pending
    /\ ret' \in Scientific_fmt(arg.x)
    /\ UNCHANGED <<arg, spinnerVars, snakeVars, barVars>>

SpinnerIdle ==
    /\ kind = "Counter256"
    /\ state = 0
    /\ out = <<>>
    /\ prev = 0
    /\ lastOp = "new"
    /\ lastArg = U32(0)
    /\ total = U32(0)
    /\ nops = 0

BarIdle == BarNew

---------------------------------------------------------------------------
(* Specifications.                                                         *)

Set == \E value \in U32Samples : SpinnerSet(value) /\ UNCHANGED <<snakeVars, barVars, prefixVars>>
Step == \E count \in U32Samples : SpinnerStep(count) /\ UNCHANGED <<snakeVars, barVars, prefixVars>>
Fmt == SpinnerFmt /\ UNCHANGED <<snakeVars, barVars, prefixVars>>

\* one spinner of any of the four table/counter types
Init == SpinnerNew /\ SnakeIdle /\ BarIdle /\ PrefixIdle
Next == Set \/ Step \/ Fmt
Spec == Init /\ [][Next]_vars

\* one Snake
SnakeInit == SnakeNew /\ SpinnerIdle /\ BarIdle /\ PrefixIdle
SnakeNext == SnakeSet \/ SnakeStep \/ SnakeFmt
SnakeSpec == SnakeInit /\ [][SnakeNext]_vars

\* one Bar
BarInit == BarNew /\ SpinnerIdle /\ SnakeIdle /\ PrefixIdle
BarNext == BarSet \/ BarFmt
BarSpec == BarInit /\ [][BarNext]_vars

\* one call of a prefix helper
PrefixStart == PrefixInit /\ SpinnerIdle /\ SnakeIdle /\ BarIdle
PrefixNext == CallBinary \/ CallSi \/ CallFmtSigfigs \/ CallScientific
PrefixSpec == PrefixStart /\ [][PrefixNext]_vars

---------------------------------------------------------------------------
(* Properties.                                                             *)

\* t mod L for an exact total <<hi, lo>> (hi unbounded)
ExactMod(t, L) == ((t[1] % L) * (Limb % L) + (t[2] % L)) % L

RECURSIVE Popcount(_)
Popcount(x) == IF x = 0 THEN 0 ELSE (x % 2) + Popcount(x \div 2)

\* the number of dots in which two braille characters differ
DotsChanged(a, b) ==
    LET x == a - 10240
        y == b - 10240
    IN  Popcount(x) + Popcount(y) - 2 * Popcount(BitAnd(x, y))

CycleLength(k) ==
    CASE k = "Spinner4" -> 4
      [] k = "Spinner8" -> 8
      [] k = "Counter16" -> 16

\* C1: for Spinner4, Spinner8 and Counter16 with cycle length L = 4, 8, 16:
\* after set(value) the state is value mod L; after step(count) from state s
\* the state is (s + count) mod L, the glyph is the one set((s + count) mod L)
\* gives, and after step(L) the glyph is the one rendered before the step.
C1_SetStepModulo ==
    kind \in FixedKinds =>
        LET L == CycleLength(kind)
            target == ExactMod(ExactAdd(U32(prev), lastArg), L)
        IN  /\ lastOp = "set" => state = ExactMod(lastArg, L)
            /\ lastOp = "step" =>
                /\ state = target
                /\ FmtOf(kind, state) = FmtOf(kind, SetOf(kind, U32(target)))
                /\ lastArg = U32(L) => FmtOf(kind, state) = FmtOf(kind, prev)

\* a Spinner8 stepped by 2^32 - 1 from state 3 and then rendered
C1_Witness ==
    /\ kind = "Spinner8"
    /\ lastOp = "step"
    /\ lastArg = U32Max
    /\ prev = 3
    /\ out = <<SPINNER8_STATES[3]>>

\* the bit permutation of the braille counter: bits 0, 1, 2 and 7 stay,
\* bit 3 goes to bit 6, bits 4, 5, 6 go to bits 3, 4, 5
DotOfBit == <<0, 1, 2, 6, 3, 4, 5, 7>>

RECURSIVE PermFrom(_, _)
PermFrom(x, i) ==
    IF i > 7 THEN 0
    ELSE ((x \div 2^i) % 2) * 2^(DotOfBit[i + 1]) + PermFrom(x, i + 1)

BrailleCells == {braille_binary(v) : v \in 0..255}

\* C7: a Counter256 holds (last set value, or 0, plus the later step
\* counts) mod 256 and renders U+2800 + perm(state); new() renders U+2800,
\* then step(0x0F) renders U+2847, then step(0xF0) renders U+28FF; the 256
\* states render 256 distinct characters.
C7_Counter256 ==
    kind = "Counter256" =>
        /\ state = ExactMod(total, 256)
        /\ Counter256_fmt(state) = {10240 + PermFrom(state, 0)}
        /\ lastOp = "new" => Counter256_fmt(state) = {10240}
        /\ (nops = 1 /\ lastOp = "step" /\ lastArg = U32(15)) =>
                Counter256_fmt(state) = {10311}
        /\ (nops = 2 /\ lastOp = "step" /\ lastArg = U32(240) /\ total = U32(255)) =>
                Counter256_fmt(state) = {10495}
        /\ Cardinality(BrailleCells) = 256

\* new(), step(0x0F), step(0xF0), rendered
C7_Witness ==
    /\ kind = "Counter256"
    /\ nops = 2
    /\ lastOp = "step"
    /\ lastArg = U32(240)
    /\ total = U32(255)
    /\ out = <<10495>>

\* C9: the state of a Spinner4, Spinner8 or Counter16 is always below the
\* length of its glyph table, so rendering never reads outside the table.
C9_IndexInRange ==
    kind \in FixedKinds =>
        /\ state < CycleLength(kind)
        /\ \A i \in DOMAIN out : out[i] \notin OutOfRangeRead

\* a Spinner4 in its last state after a step by 2^32 - 1, rendered
C9_Witness ==
    /\ kind = "Spinner4"
    /\ lastOp = "step"
    /\ lastArg = U32Max
    /\ state = 3
    /\ out = <<SPINNER4_STATES[4]>>

\* C8: every Snake state renders a braille character in U+2800..U+28FF
\* with exactly |(state mod 10) - 5| + 1 dots, a number between 1 and 6.
C8_SnakeDots ==
    LET dots == Abs(ExactMod(snake, 10) - 5) + 1
        glyph == Snake_fmt(snake)
    IN  /\ glyph \in 10240..10495
        /\ Popcount(glyph - 10240) = dots
        /\ dots \in 1..6
        /\ \A i \in DOMAIN snakeOut : snakeOut[i] \in 10240..10495

\* a Snake stepped across the carry of its low half (65535 + 10 = 65545,
\* phase 5), rendered with a single dot
C8_Witness ==
    /\ snakeOp = "step"
    /\ snakeArg = U32(2 * WOBBLE)
    /\ snake = <<1, 9>>
    /\ snakeOut = <<Snake_fmt(snake)>>
    /\ Popcount(snakeOut[1] - 10240) = 1

\* C10: for a Snake state s below 2^32 - 1, the glyph after step(1) differs
\* from the glyph at s in exactly one dot.
C10_SnakeOneDot ==
    snake # U32Max =>
        DotsChanged(Snake_fmt(snake), Snake_fmt(Snake_step(snake, U32(1)))) = 1

\* a Snake set to the last frame before the position wraps around the
\* cell, rendered, then stepped by one: the next step adds one dot
C10_Witness ==
    /\ snakeOp = "step"
    /\ snakeArg = U32(1)
    /\ snake = U32(2 * WOBBLE * 8 - 1)
    /\ snakeOut = <<Snake_fmt(U32(2 * WOBBLE * 8 - 2))>>
    /\ DotsChanged(snakeOut[1], Snake_fmt(snake)) = 1

\* the exact value of floor(w * c * 2^k), for a finite float c in [0, 1]
ExactFloor(w, c, k) ==
    LET p == Mul24(w, c.m)
        s == -(c.e + k)
    IN  IF s <= 0 THEN (p[1] * 2^24 + p[2]) * 2^(-s)
        ELSE IF s <= 24 THEN p[1] * 2^(24 - s) + p[2] \div 2^s
        ELSE IF s - 24 > 30 THEN 0
        ELSE p[1] \div 2^(s - 24)

\* clamp(p, 0, 1); a NaN may go to either end
Clamped(p) ==
    CASE p.cls = "nan" -> {Fin(FALSE, 0, 0), Fin(FALSE, 1, 0)}
      [] p.cls = "inf" -> {IF p.neg THEN Fin(FALSE, 0, 0) ELSE Fin(FALSE, 1, 0)}
      [] OTHER ->
            IF p.neg THEN {Fin(FALSE, 0, 0)}
            ELSE IF p.e >= 0 /\ p.m >= 1 THEN {Fin(FALSE, 1, 0)}
            ELSE IF p.e < 0 /\ -p.e < BitLen(p.m) THEN {Fin(FALSE, 1, 0)}
            ELSE {p}

\* runs without the empty ones, adjacent runs of one character joined
RECURSIVE Joined(_)
Joined(runs) ==
    IF runs = <<>> THEN <<>>
    ELSE LET rest == Joined(Tail(runs))
             r == Head(runs)
         IN  IF r[2] = 0 THEN rest
             ELSE IF rest # <<>> /\ rest[1][1] = r[1]
                  THEN <<<<r[1], r[2] + rest[1][2]>>>> \o Tail(rest)
                  ELSE <<r>> \o rest

RECURSIVE Written(_)
Written(runs) == IF runs = <<>> THEN 0 ELSE Head(runs)[2] + Written(Tail(runs))

\* the W characters the bar is to show for the clamped progress c
BarText(W, c, fill) ==
    LET full == ExactFloor(W, c, 0)
        eighth == ExactFloor(W, c, 3) % 8
    IN  IF full < W
        THEN << <<9608, full>>,
                <<IF eighth = 0 THEN fill ELSE EighthBlocks[eighth], 1>>,
                <<fill, W - full - 1>> >>
        ELSE << <<9608, full>> >>

\* C2: for every stored progress p and width W, the bar renders exactly W
\* characters: floor(W * clamp(p, 0, 1)) full blocks, then (if fewer than W)
\* the eighth-block for floor(fractional part * 8), or the fill character
\* when that is 0, then fill characters up to W.
C2_BarText ==
    barOut.status # "none" =>
        LET p == barOut.call[1]
            W == IF barOut.call[2] = <<>> THEN 80 ELSE barOut.call[2][1]
            fill == barOut.call[3]
        IN  /\ barOut.status = "ok"
            /\ Written(barOut.runs) = W
            /\ \E c \in Clamped(p) :
                   Joined(barOut.runs) = Joined(BarText(W, c, fill))

\* the power of the base that a prefix stands for: 1024 = 2^10 per binary
\* step, 1000 = 10^3 per SI step
PrefixPower(prefix) ==
    CASE prefix = <<>> -> 0
      [] prefix = <<"Ki">> -> 10 [] prefix = <<"Mi">> -> 20
      [] prefix = <<"Gi">> -> 30 [] prefix = <<"Ti">> -> 40
      [] prefix = <<"Pi">> -> 50 [] prefix = <<"Ei">> -> 60
      [] prefix = <<"Zi">> -> 70 [] prefix = <<"Yi">> -> 80
      [] prefix = <<"k">> -> 3 [] prefix = <<"M">> -> 6
      [] prefix = <<"G">> -> 9 [] prefix = <<"T">> -> 12
      [] prefix = <<"P">> -> 15 [] prefix = <<"E">> -> 18
      [] prefix = <<"Z">> -> 21 [] prefix = <<"Y">> -> 24
      [] prefix = <<"m">> -> -3 [] prefix = <<"u">> -> -6
      [] prefix = <<"n">> -> -9 [] prefix = <<"p">> -> -12
      [] prefix = <<"f">> -> -15 [] prefix = <<"a">> -> -18
      [] prefix = <<"z">> -> -21 [] prefix = <<"y">> -> -24

\* b^lo <= |v| < b^hi
AbsWithin(b, v, lo, hi) == ~AbsBelow(b, v, lo) /\ AbsBelow(b, v, hi)

\* C3: binary(x) for 1024 <= x < 1024^9 returns a mantissa in [1, 1024);
\* si(x) for 1000 <= |x| < 1e27 or 1e-24 <= |x| < 1 returns a mantissa of
\* magnitude in [1, 1000); and mantissa * (value of the prefix) = x.
C3_LargestPrefix ==
    /\ (arg.fn = "binary" /\ ret # Pending /\ ~arg.x.neg
            /\ AbsWithin(2, arg.x, 10, 90)) =>
        /\ ~ret.mantissa.neg
        /\ AbsWithin(2, ret.mantissa, 0, 10)
        /\ Scaled(2, ret.mantissa, -PrefixPower(ret.prefix)) = arg.x
    /\ (arg.fn = "si" /\ ret # Pending
            /\ (AbsWithin(10, arg.x, 3, 27) \/ AbsWithin(10, arg.x, -24, 0))) =>
        /\ AbsWithin(10, ret.mantissa, 0, 3)
        /\ Scaled(10, ret.mantissa, -PrefixPower(ret.prefix)) = arg.x

\* C4: for a nonzero value and figures >= 1, with log = floor(log10(|value|)),
\* fmt_sigfigs writes exponential notation with figures - 1 fractional
\* digits when log < 0 or log >= figures, and fixed notation with
\* figures - (log + 1) fractional digits otherwise; zero is written as 0
\* with figures - 1 fractional zeros.
C4_SigFigs ==
    (arg.fn = "fmt_sigfigs" /\ ret # Pending /\ arg.figures >= 1) =>
        LET log == DigitLen(10, arg.x.n) + arg.x.e - 1
        IN  /\ ret.status = "ok"
            /\ IF arg.x.n = 0
               THEN /\ ret.notation = "fixed"
                    /\ ret.text = PointText(0, arg.figures - 1)
               ELSE IF log < 0 \/ log >= arg.figures
               THEN /\ ret.notation = "exp"
                    /\ ret.precision = arg.figures - 1
               ELSE /\ ret.notation = "fixed"
                    /\ ret.precision = arg.figures - (log + 1)

\* C5: for a value in [1e-24, 1e28), Scientific(value) is written in at
\* most 6 ASCII characters.
C5_ScientificWidth ==
    (arg.fn = "Scientific" /\ ret # Pending /\ ~arg.x.neg
        /\ AbsWithin(10, arg.x, -24, 28)) =>
        /\ ret.status = "ok"
        /\ Len(ret.text) <= 6
        /\ si(arg.x).prefix # <<"u">>

\* C6: no operation panics, traps on an arithmetic overflow or reaches the
\* bar's unreachable branch, whatever its input.
C6_NoAbort ==
    /\ ret.status # "panic"
    /\ barOut.status # "panic"

=============================================================================
